---- MODULE Spec2Model ----
(***************************************************************************)
(* The selection-prompt engine of inquire: SelectPrompt and                *)
(* MultiSelectPrompt (inquire/src/prompts/{select,multiselect}/prompt.rs). *)
(*                                                                         *)
(* One prompt instance is modelled from the builder value handed to `new`  *)
(* up to the value `prompt` returns.  Canonical indices are 0-based as in  *)
(* the source; TLA+ sequences are 1-based, so options[i + 1] is the        *)
(* element the source calls options[i].                                    *)
(*                                                                         *)
(* Option<X> is modelled as a sequence: <<>> is None, <<x>> is Some(x).    *)
(* The scorer, the validator, the pre_cancel hook, the key source and the  *)
(* heights the backend reports are caller-supplied; each call's result is  *)
(* an input of the step that makes the call.                               *)
(***************************************************************************)
EXTENDS Integers, Sequences, FiniteSets, TLC

\* ------------------------------------------------------------------ bounds
MaxOptions == 3     \* options.len() ranges over 0..MaxOptions
MaxPageSize == 3    \* configured page_size ranges over 1..MaxPageSize
MaxHeight == 3      \* heights the backend reports range over 0..MaxHeight
MaxScore == 1       \* scorer results range over None, Some(0)..Some(MaxScore)
MaxFilter == 1      \* filter texts are 0..MaxFilter, 0 being the empty text
MaxDefault == 1     \* the default-checked list names at most MaxDefault indices
MaxMessages == 2    \* the validator's Invalid messages are "msg1".."msgN"

\* ------------------------------------------------- machine-integer constants
\* usize::MAX, the quantity MoveToStart / MoveToEnd pass.  The target's value
\* is 2^64 - 1; the model's integers are 32-bit, so the largest one stands for
\* it: all that the code uses of it is that it exceeds every length and cursor.
USIZE_MAX == 2147483647
\* u16::MAX, the terminal height assumed when the backend reports none.
U16_MAX == 65535

VARIABLES
    kind,            \* "select" | "multiselect": which prompt this instance is
    args,            \* the builder value (Select / MultiSelect) given to new; <<>> once moved
    pc,              \* "new" "failed" "setup" "loop" "key" "redraw" "measured" "answered" "done"
    result,          \* what new / prompt returned so far: "None", an Err kind or "Ok"
    answer,          \* the value carried by Ok (a sequence of (index, value) pairs)
    options,         \* self.options
    scored_options,  \* self.scored_options
    cursor_index,    \* self.cursor_index
    checked,         \* self.checked (multi-select)
    input,           \* self.input: <<>> (filtering disabled) or <<content>>
    config,          \* self.config: page_size, reset_cursor, keep_filter
    validator,       \* whether self.validator is Some (multi-select)
    error,           \* self.error: <<>> or <<message>>
    last_handle,     \* prompt()'s last_handle
    page_size,       \* redraw_with_adaptive_page_size's local page_size
    frame_h,         \* redraw_with_adaptive_page_size's local frame_h; 0 outside its scope
    term_h,          \* redraw_with_adaptive_page_size's local term_h; 0 outside its scope
    aborts,          \* frames aborted so far by the running adaptive redraw
    entry_page_size, \* the working page size the running adaptive redraw began with
    scores,          \* what the scorer returned to the step just taken; <<>> if it was not called
    redraw_cause,    \* the step that asked for the redraw not yet begun; "None" if there is none
    calls,           \* the backend and hook calls the step just taken made, in order
    failed           \* <<>>, or <<call, error>>: the call that returned Err and what it returned

\* The locals and bookkeeping of redraw_with_adaptive_page_size.
redraw_locals == <<page_size, frame_h, term_h, aborts, entry_page_size>>

vars == <<kind, args, pc, result, answer, options, scored_options, cursor_index,
          checked, input, config, validator, error, last_handle, page_size,
          frame_h, term_h, aborts, entry_page_size, scores, redraw_cause,
          calls, failed>>

\* ------------------------------------------------------------ value domains
Kinds == {"select", "multiselect"}
Indices == 0..MaxOptions
FilterTexts == 0..MaxFilter
EmptyText == 0
ScoreOpts == {<<>>} \cup {<<s>> : s \in 0..MaxScore}
Messages == {<<"msg", m>> : m \in 1..MaxMessages}
NoScores == <<>>

\* The value at canonical index i of the Option Set: opaque and distinct.
OptionValue(i) == <<"opt", i>>

\* ListOption::new(index, value)
ListOption(index, value) == [index |-> index, value |-> value]

Range(s) == {s[k] : k \in 1..Len(s)}

\* Identity collecting 1..=n instead of 0..n.
Identity_from_one(n) == [k \in 1..n |-> k]

\* (0..n).collect()
Identity(n) == [k \in 1..n |-> k - 1]

\* ------------------------------------------------------ usize arithmetic
saturating_sub(a, b) == IF a >= b THEN a - b ELSE 0

saturating_add(a, b) == IF a >= USIZE_MAX - b THEN USIZE_MAX ELSE a + b

Max(a, b) == IF a >= b THEN a ELSE b

Min(a, b) == IF a <= b THEN a ELSE b

\* ------------------------------------------------------------ construction
\* The builder values new can be given.  default is Option<Vec<usize>>: only
\* which indices occur in it matters to new, so it is kept as a set, here of at
\* most MaxDefault indices.  A field the code never reads for want of a filter
\* input (starting_filter_input, reset_cursor, keep_filter when
\* filter_input_enabled is false) is given one value only.
FilterFieldsUsed(a) ==
    a.filter_input_enabled
    \/ (a.starting_filter_input = <<>> /\ ~a.reset_cursor /\ ~a.keep_filter)

SelectArgs ==
    {a \in [options : {[k \in 1..n |-> OptionValue(k - 1)] : n \in 0..MaxOptions},
            starting_cursor : Indices,
            default : {<<>>},
            filter_input_enabled : BOOLEAN,
            starting_filter_input : {<<>>} \cup {<<c>> : c \in FilterTexts},
            page_size : 1..MaxPageSize,
            reset_cursor : BOOLEAN,
            keep_filter : {FALSE},
            validator : {FALSE}] : FilterFieldsUsed(a)}

MultiSelectArgs ==
    {a \in [options : {[k \in 1..n |-> OptionValue(k - 1)] : n \in 0..MaxOptions},
            starting_cursor : Indices,
            default : {<<>>} \cup {<<d>> : d \in {e \in SUBSET Indices :
                                                    Cardinality(e) <= MaxDefault}},
            filter_input_enabled : BOOLEAN,
            starting_filter_input : {<<>>} \cup {<<c>> : c \in FilterTexts},
            page_size : 1..MaxPageSize,
            reset_cursor : BOOLEAN,
            keep_filter : BOOLEAN,
            validator : BOOLEAN] : FilterFieldsUsed(a)}

\* SelectPrompt::new's two checks: TRUE when it returns InvalidConfiguration.
select_new_invalid(so) ==
    \/ Len(so.options) = 0
    \/ so.starting_cursor >= Len(so.options)

\* multiselect_new_invalid with the bound test off by one (i > len).
multiselect_new_invalid_off_by_one(mso) ==
    \/ Len(mso.options) = 0
    \/ /\ mso.default # <<>>
       /\ \E i \in mso.default[1] : i > Len(mso.options)

\* MultiSelectPrompt::new's checks: TRUE when it returns InvalidConfiguration.
\* It does not look at mso.starting_cursor.
multiselect_new_invalid(mso) ==
    \/ Len(mso.options) = 0
    \/ /\ mso.default # <<>>
       /\ \E i \in mso.default[1] : i >= Len(mso.options)

new_invalid(k, a) ==
    IF k = "select" THEN select_new_invalid(a) ELSE multiselect_new_invalid(a)

\* checked_options of MultiSelectPrompt::new
checked_options(mso) ==
    IF mso.default = <<>> THEN {}
    ELSE {i \in mso.default[1] : i < Len(mso.options)}

\* input of new: Input::new_with(starting_filter_input.unwrap_or_default())
new_input(a) ==
    IF a.filter_input_enabled
    THEN (IF a.starting_filter_input = <<>> THEN <<EmptyText>> ELSE a.starting_filter_input)
    ELSE <<>>

\* ---------------------------------------------------------- cursor movement
\* move_cursor_up wrapping one position short of where it should land.
move_cursor_up_wrap_short(cursor, len, qty, wrap) ==
    IF wrap
    THEN LET after_wrap == saturating_sub(qty, cursor) + 1
         IN  IF cursor >= qty THEN cursor - qty ELSE saturating_sub(len, after_wrap)
    ELSE saturating_sub(cursor, qty)

\* new_position of move_cursor_up
move_cursor_up(cursor, len, qty, wrap) ==
    IF wrap
    THEN LET after_wrap == saturating_sub(qty, cursor)
         IN  IF cursor >= qty THEN cursor - qty ELSE saturating_sub(len, after_wrap)
    ELSE saturating_sub(cursor, qty)

\* new_position of move_cursor_down
move_cursor_down(cursor, len, qty, wrap) ==
    LET new_position == saturating_add(cursor, qty)
    IN  IF new_position >= len
        THEN (IF len = 0 THEN 0
              ELSE IF wrap THEN new_position % len
              ELSE saturating_sub(len, 1))
        ELSE new_position

\* The ActionResult of update_cursor_position (the cursor becomes new_position).
update_cursor_position(cursor, new_position) ==
    IF new_position # cursor THEN "NeedsRedraw" ELSE "Clean"

\* ActionResult::merge
merge(a, b) == IF a = "NeedsRedraw" \/ b = "NeedsRedraw" THEN "NeedsRedraw" ELSE "Clean"

\* ------------------------------------------------------------------ scoring
\* What one run of the scorer over n options can return: sc[i + 1] is the
\* scorer's result for canonical index i.
ScorerResults(n) == [1..n -> ScoreOpts]

\* The indices the filter_map keeps.
Survivors(sc) == {i \in 0..(Len(sc) - 1) : sc[i + 1] # <<>>}

\* sort_unstable_by_key letting an index take the place of another.
sort_unstable_by_key_repeating(sc) ==
    LET S == Survivors(sc)
        k == Cardinality(S)
    IN  {s \in [1..k -> S] :
            \A a, b \in 1..k : a < b => sc[s[a] + 1][1] >= sc[s[b] + 1][1]}

\* options.sort_unstable_by_key(|(_idx, score)| Reverse(*score)) followed by the
\* projection on the indices: every arrangement of the survivors with
\* non-increasing scores.  The sort is unstable and its key is the score alone,
\* so the order it gives to equal scores is unspecified: each is an outcome.
sort_unstable_by_key(sc) ==
    LET S == Survivors(sc)
        k == Cardinality(S)
    IN  {s \in [1..k -> S] :
            \A a, b \in 1..k : a < b => s[a] # s[b] /\ sc[s[a] + 1][1] >= sc[s[b] + 1][1]}

\* One evaluation of the scorer over n options together with an order the sort
\* can leave: ScorerRuns[n] is every such pair.
ScorerRuns ==
    [n \in 0..MaxOptions |->
        UNION {{[scores |-> sc, order |-> new] : new \in sort_unstable_by_key(sc)} :
               sc \in ScorerResults(n)}]

\* run_scorer without the early return for an unchanged order.
run_scorer_always_reconciling(scored, cursor, reset_cursor, new_scored_options) ==
    [scored_options |-> new_scored_options,
     cursor_index |->
         IF reset_cursor THEN 0
         ELSE IF Len(new_scored_options) <= cursor
              THEN saturating_sub(Len(new_scored_options), 1)
              ELSE cursor]

\* run_scorer from the comparison with the previous order on:
\* new_scored_options is the order just computed.
run_scorer(scored, cursor, reset_cursor, new_scored_options) ==
    IF scored = new_scored_options
    THEN [scored_options |-> scored, cursor_index |-> cursor]
    ELSE [scored_options |-> new_scored_options,
          cursor_index |->
              IF reset_cursor THEN 0
              ELSE IF Len(new_scored_options) <= cursor
                   THEN saturating_sub(Len(new_scored_options), 1)
                   ELSE cursor]

\* ------------------------------------------------------------- selection
\* toggle_cursor_selection that inserts whether or not the index is checked.
toggle_cursor_selection_insert_only(chk, scored, cursor) ==
    IF cursor < Len(scored) THEN chk \cup {scored[cursor + 1]} ELSE chk

\* self.checked after toggle_cursor_selection
toggle_cursor_selection(chk, scored, cursor) ==
    IF cursor < Len(scored)
    THEN LET idx == scored[cursor + 1]
         IN  IF idx \in chk THEN chk \ {idx} ELSE chk \cup {idx}
    ELSE chk

\* The ActionResult of toggle_cursor_selection
toggle_result(scored, cursor) ==
    IF cursor < Len(scored) THEN "NeedsRedraw" ELSE "Clean"

\* select_all inserting the positions 1..=len instead of the indices found there.
select_all_one_based(scored) == 1..Len(scored)

\* self.checked after SelectAll: clear(), then insert every scored index
select_all(scored) == Range(scored)

\* clear_input_if_needed without the keep_filter test.
clear_input_if_needed_ignoring_keep(keep_filter, inp) ==
    /\ inp # <<>>
    /\ inp[1] # EmptyText

\* Whether clear_input_if_needed clears the filter for a selection action.
clear_input_if_needed(keep_filter, inp) ==
    /\ ~keep_filter
    /\ inp # <<>>
    /\ inp[1] # EmptyText

\* ------------------------------------------------------------- extraction
\* Vec::swap_remove(index): the element removed and the vector left.
swap_remove(v, index) ==
    [value |-> v[index + 1],
     vec |-> [k \in 1..(Len(v) - 1) |-> IF k = index + 1 THEN v[Len(v)] ELSE v[k]]]

SetMax(S) == CHOOSE x \in S : \A y \in S : y <= x

Reverse(s) == [k \in 1..Len(s) |-> s[Len(s) + 1 - k]]

\* The loop of MultiSelectPrompt::get_final_answer: the checked indices from
\* the largest down, each swap_remove'd and pushed.  swap_remove panics on an
\* index that is out of bounds.
RECURSIVE take_checked(_, _, _)
take_checked(opts, todo, acc) ==
    IF todo = {} THEN [panic |-> FALSE, options |-> opts, answer |-> acc]
    ELSE LET index == SetMax(todo)
         IN  IF index >= Len(opts)
             THEN [panic |-> TRUE, options |-> opts, answer |-> acc]
             ELSE LET r == swap_remove(opts, index)
                  IN  take_checked(r.vec, todo \ {index},
                                   Append(acc, ListOption(index, r.value)))

\* multiselect_get_final_answer without the final answer.reverse().
multiselect_get_final_answer_unreversed(opts, chk) == take_checked(opts, chk, <<>>)

\* MultiSelectPrompt::get_final_answer
multiselect_get_final_answer(opts, chk) ==
    LET r == take_checked(opts, chk, <<>>)
    IN  [r EXCEPT !.answer = Reverse(r.answer)]

\* SelectPrompt::has_answer_highlighted
has_answer_highlighted(scored, cursor) == cursor < Len(scored)

\* select_get_final_answer taking the cursor itself for the canonical index.
select_get_final_answer_by_cursor(opts, scored, cursor) ==
    LET r == swap_remove(opts, cursor)
    IN  [panic |-> FALSE, options |-> r.vec, answer |-> <<ListOption(cursor, r.value)>>]

\* SelectPrompt::get_final_answer
select_get_final_answer(opts, scored, cursor) ==
    LET index == scored[cursor + 1]
    IN  IF index >= Len(opts)
        THEN [panic |-> TRUE, options |-> opts, answer |-> <<>>]
        ELSE LET r == swap_remove(opts, index)
             IN  [panic |-> FALSE, options |-> r.vec,
                  answer |-> <<ListOption(index, r.value)>>]

\* attach_error forgetting the message.
attach_error_forgotten(old, msg) == old

\* self.error after submit() met Validation::Invalid(msg)
attach_error(old, msg) == msg

\* What validate_current_answer can return: Ok(Valid), Ok(Invalid(msg)), or the
\* validator's own Err.
validate_current_answer(has_validator) ==
    IF has_validator
    THEN {[kind |-> "Valid", msg |-> <<>>], [kind |-> "Err", msg |-> <<>>]}
         \cup {[kind |-> "Invalid", msg |-> <<m>>] : m \in Messages}
    ELSE {[kind |-> "Valid", msg |-> <<>>]}

\* --------------------------------------------------------- adaptive redraw
\* frame_h: current_flush_height().unwrap_or(0)
flush_height(h) == IF h = <<>> THEN 0 ELSE h[1]

\* term_h: current_terminal_height().unwrap_or(u16::MAX)
terminal_height(h) == IF h = <<>> THEN U16_MAX ELSE h[1]

HeightOpts == {<<>>} \cup {<<h>> : h \in 0..MaxHeight}

\* fits accepting every page size up to 2.
fits_up_to_two(fh, th, p) == fh <= th \/ p <= 2

\* fits without the clause that accepts a page size of 1 unconditionally.
fits_only_when_short(fh, th, p) == fh <= th

\* The test that commits the frame.
fits(fh, th, p) == fh <= th \/ p <= 1

\* shrink_page_size without the fallback for a quotient that did not decrease.
shrink_page_size_no_fallback(p, th, fh) ==
    (p * Max(th, 1)) \div Max(fh, 1)

\* shrink_page_size stepping down by one whatever the heights.
shrink_page_size_by_one(p, th, fh) == Max(saturating_sub(p, 1), 1)

\* shrink_page_size whose fallback adds one instead of subtracting it.
shrink_page_size_fallback_up(p, th, fh) ==
    LET new_size == (p * Max(th, 1)) \div Max(fh, 1)
    IN  IF new_size >= p THEN Max(saturating_add(p, 1), 1) ELSE new_size

\* new_size after an aborted frame.  The product is taken in u32 with
\* saturation; page sizes and heights are far below where it saturates.
shrink_page_size(p, th, fh) ==
    LET new_size == (p * Max(th, 1)) \div Max(fh, 1)
    IN  IF new_size >= p THEN Max(saturating_sub(p, 1), 1) ELSE new_size

\* ------------------------------------------------------------ filter input
\* Input::handle(input_action): the text it leaves and what it reports.  A
\* changed text is ContentChanged; with the text unchanged the caret may have
\* moved (PositionChanged) or nothing happened (Clean).
input_handle(content) ==
    {[content |-> c, result |-> "ContentChanged"] : c \in FilterTexts \ {content}}
    \cup {[content |-> content, result |-> r] : r \in {"PositionChanged", "Clean"}}

\* impl From<InputActionResult> for ActionResult
input_result_into(r) == IF r = "Clean" THEN "Clean" ELSE "NeedsRedraw"

\* ------------------------------------------------------------------- state
NoConfig == [page_size |-> 0, reset_cursor |-> FALSE, keep_filter |-> FALSE]

Init ==
    /\ kind \in Kinds
    /\ args \in {<<a>> : a \in (IF kind = "select" THEN SelectArgs ELSE MultiSelectArgs)}
    /\ pc = "new"
    /\ result = "None"
    /\ answer = <<>>
    /\ options = <<>>
    /\ scored_options = <<>>
    /\ cursor_index = 0
    /\ checked = {}
    /\ input = <<>>
    /\ config = NoConfig
    /\ validator = FALSE
    /\ error = <<>>
    /\ last_handle = "Clean"
    /\ page_size = 0
    /\ frame_h = 0
    /\ term_h = 0
    /\ aborts = 0
    /\ entry_page_size = 0
    /\ scores = NoScores
    /\ redraw_cause = "None"
    /\ calls = <<>>
    /\ failed = <<>>

\* prompt(mut self, ..) owns the prompt: when it returns, the prompt is dropped
\* and nothing of it is left to observe.
DropSelf ==
    /\ options' = <<>>
    /\ scored_options' = <<>>
    /\ cursor_index' = 0
    /\ checked' = {}
    /\ input' = <<>>
    /\ config' = NoConfig
    /\ validator' = FALSE
    /\ error' = <<>>
    /\ last_handle' = "Clean"
    /\ page_size' = 0
    /\ frame_h' = 0
    /\ term_h' = 0
    /\ aborts' = 0
    /\ entry_page_size' = 0

\* prompt() returns an error: the prompt is dropped and there is no answer.
Dropped == DropSelf /\ answer' = <<>>

\* redraw_cause after a step named name that leaves last_handle at h.
Cause(name, h) == IF h = "NeedsRedraw" THEN name ELSE "None"

\* AtReadKey whatever the last handled action asked for.
AtReadKey_ignoring_redraw == pc = "loop"

\* prompt() is about to block in read_key.
AtReadKey == pc = "loop" /\ last_handle = "Clean"

\* read_key has returned a key and prompt() has not yet acted on it.
KeyRead == pc = "key"

\* ----------------------------------------------------------- backend calls
\* render_calls never drawing the error message.
render_calls_without_error(k, err) ==
    <<"frame_setup", "render", "current_flush_height", "current_terminal_height">>

\* The calls of one pass through frame_setup and render.  "render" stands for
\* the calls that draw the prompt line, the options and the help message; the
\* multi-select render starts with render_error_message when self.error is
\* Some.  The two height queries follow; they return Option, not Result.
render_calls(k, err) ==
    <<"frame_setup">>
    \o (IF k = "multiselect" /\ err # <<>> THEN <<"render_error_message">> ELSE <<>>)
    \o <<"render", "current_flush_height", "current_terminal_height">>

\* The call that commits the frame of a redraw.
commit_calls == <<"frame_finish">>

\* abort_calls leaving the frame open.
abort_calls_nothing == <<>>

\* The call that discards the frame of a redraw.
abort_calls == <<"frame_abort">>

\* cancel_calls asking the hook a second time after it approved.
cancel_calls_asking_twice(approved) ==
    IF approved
    THEN <<"pre_cancel", "pre_cancel", "frame_setup", "render_canceled_prompt", "frame_finish">>
    ELSE <<"pre_cancel">>

\* Action::Cancel: the hook, and the canceled-state frame if it approved.
cancel_calls(approved) ==
    IF approved
    THEN <<"pre_cancel", "frame_setup", "render_canceled_prompt", "frame_finish">>
    ELSE <<"pre_cancel">>

\* interrupt_calls drawing the canceled-state frame first.
interrupt_calls_with_frame == <<"frame_setup", "render_canceled_prompt", "frame_finish">>

\* Action::Interrupt returns at once.
interrupt_calls == <<>>

\* The frame with the formatted answer.
finish_calls == <<"frame_setup", "render_prompt_with_answer", "frame_finish">>

\* The calls that return InquireResult, which `?` can return from prompt().
Fallible(c) == c \notin {"pre_cancel", "current_flush_height", "current_terminal_height"}

\* The errors a backend call can return.
BackendErrors == {"IO", "NotTTY"}

\* propagate turning every backend error into a cancellation.
propagate_as_canceled(e) == "OperationCanceled"

\* `?` on a backend call: the error prompt() returns for the error e it got.
propagate(e) == e

\* The calls prompt() makes next from the current state, as far as they can
\* fail: for a key just read, those of an approved Cancel.
PendingCalls ==
    CASE AtReadKey -> <<"read_key">>
      [] pc = "redraw" -> render_calls(kind, error)
      [] pc = "measured" ->
            (IF fits(frame_h, term_h, page_size) THEN commit_calls ELSE abort_calls)
      [] pc = "key" -> cancel_calls(TRUE)
      [] pc = "answered" -> finish_calls
      [] OTHER -> <<>>

\* The step made the calls cs and none of them failed.
Called(cs) == calls' = cs /\ failed' = <<>>

\* SelectPrompt::new / MultiSelectPrompt::new
New ==
    /\ pc = "new"
    /\ LET a == args[1]
       IN  IF new_invalid(kind, a)
           THEN /\ pc' = "failed"
                /\ result' = "InvalidConfiguration"
                /\ UNCHANGED <<args, options, scored_options, cursor_index, checked,
                               input, config, validator>>
           ELSE /\ pc' = "setup"
                /\ args' = <<>>
                /\ options' = a.options
                /\ scored_options' = Identity(Len(a.options))
                /\ cursor_index' = a.starting_cursor
                /\ checked' = (IF kind = "select" THEN {} ELSE checked_options(a))
                /\ input' = new_input(a)
                /\ config' = [page_size |-> a.page_size,
                              reset_cursor |-> a.reset_cursor,
                              keep_filter |-> a.keep_filter]
                /\ validator' = a.validator
                /\ UNCHANGED result
    /\ Called(<<>>)
    /\ UNCHANGED <<kind, answer, error, last_handle, page_size, frame_h, term_h,
                   aborts, entry_page_size, scores, redraw_cause>>

\* setup(), then `let mut last_handle = ActionResult::NeedsRedraw`
Setup ==
    /\ pc = "setup"
    /\ pc' = "loop"
    /\ last_handle' = "NeedsRedraw"
    /\ redraw_cause' = "Setup"
    /\ Called(<<>>)
    /\ IF input = <<>>
       THEN UNCHANGED <<scored_options, cursor_index, scores>>
       ELSE \E run \in ScorerRuns[Len(options)] :
               LET r == run_scorer(scored_options, cursor_index, config.reset_cursor,
                                   run.order)
               IN  /\ scored_options' = r.scored_options
                   /\ cursor_index' = r.cursor_index
                   /\ scores' = run.scores
    /\ UNCHANGED <<kind, args, result, answer, options, checked, input, config,
                   validator, error, redraw_locals>>

\* redraw_with_adaptive_page_size up to its loop
RedrawBegin ==
    /\ pc = "loop"
    /\ last_handle = "NeedsRedraw"
    /\ pc' = "redraw"
    /\ page_size' = Max(config.page_size, 1)
    /\ entry_page_size' = Max(config.page_size, 1)
    /\ aborts' = 0
    /\ scores' = NoScores
    /\ redraw_cause' = "None"
    /\ Called(<<>>)
    /\ UNCHANGED <<kind, args, result, answer, options, scored_options, cursor_index,
                   checked, input, config, validator, error, last_handle, frame_h, term_h>>

\* One iteration of the loop up to its test: frame_setup, render, and the two
\* heights the backend reports for the frame just rendered.
Render ==
    /\ pc = "redraw"
    /\ pc' = "measured"
    /\ \E fh, th \in HeightOpts :
          /\ frame_h' = flush_height(fh)
          /\ term_h' = terminal_height(th)
    /\ Called(render_calls(kind, error))
    /\ UNCHANGED <<kind, args, result, answer, options, scored_options, cursor_index,
                   checked, input, config, validator, error, last_handle, page_size,
                   aborts, entry_page_size, scores, redraw_cause>>

\* The rest of an iteration that ends in frame_finish(false); break
RedrawCommit ==
    /\ pc = "measured"
    /\ fits(frame_h, term_h, page_size)
    /\ Called(commit_calls)
    /\ pc' = "loop"
    /\ last_handle' = "Clean"
    /\ page_size' = 0
    /\ frame_h' = 0
    /\ term_h' = 0
    /\ aborts' = 0
    /\ entry_page_size' = 0
    /\ UNCHANGED <<kind, args, result, answer, options, scored_options, cursor_index,
                   checked, input, config, validator, error, scores, redraw_cause>>

\* The rest of an iteration that ends in frame_abort() and a smaller page size
RedrawAbort ==
    /\ pc = "measured"
    /\ ~fits(frame_h, term_h, page_size)
    /\ Called(abort_calls)
    /\ pc' = "redraw"
    /\ LET new_size == shrink_page_size(page_size, term_h, frame_h)
       IN  /\ page_size' = new_size
           /\ config' = [config EXCEPT !.page_size = new_size]
    /\ cursor_index' = Min(cursor_index, saturating_sub(Len(scored_options), 1))
    /\ frame_h' = 0
    /\ term_h' = 0
    /\ aborts' = aborts + 1
    /\ UNCHANGED <<kind, args, result, answer, options, scored_options, checked,
                   input, validator, error, last_handle, entry_page_size, scores,
                   redraw_cause>>

\* A backend call (frame_setup, a render call, frame_abort, frame_finish,
\* read_key) returns an error, which `?` returns from prompt(): the calls up
\* to and including the failing one were made.
BackendError ==
    /\ \E k \in 1..Len(PendingCalls), e \in BackendErrors :
          /\ Fallible(PendingCalls[k])
          /\ calls' = SubSeq(PendingCalls, 1, k)
          /\ failed' = <<PendingCalls[k], e>>
          /\ result' = propagate(e)
    /\ pc' = "done"
    /\ scores' = NoScores
    /\ redraw_cause' = "None"
    /\ Dropped
    /\ UNCHANGED <<kind, args>>

\* backend.read_key() returns a key.
ReadKey ==
    /\ AtReadKey
    /\ pc' = "key"
    /\ Called(<<"read_key">>)
    /\ UNCHANGED <<kind, args, result, answer, options, scored_options, cursor_index,
                   checked, input, config, validator, error, last_handle, redraw_locals,
                   scores, redraw_cause>>

\* A key that Action::from_key maps to no action.
KeyIgnored ==
    /\ KeyRead
    /\ pc' = "loop"
    /\ scores' = NoScores
    /\ redraw_cause' = "None"
    /\ Called(<<>>)
    /\ UNCHANGED <<kind, args, result, answer, options, scored_options, cursor_index,
                   checked, input, config, validator, error, last_handle, redraw_locals>>

\* What every cursor-moving handler leaves alone.
MoveFrame(name) ==
    /\ redraw_cause' = Cause(name, last_handle')
    /\ scores' = NoScores
    /\ pc' = "loop"
    /\ Called(<<>>)
    /\ UNCHANGED <<kind, args, result, answer, options, scored_options, checked,
                   input, config, validator, error, redraw_locals>>

\* handle(MoveUp), handle(MoveDown), ...: the cursor goes to new_position
MoveTo(name, new_position) ==
    /\ KeyRead
    /\ cursor_index' = new_position
    /\ last_handle' = update_cursor_position(cursor_index, new_position)
    /\ MoveFrame(name)

MoveUp ==
    MoveTo("MoveUp", move_cursor_up(cursor_index, Len(scored_options), 1, TRUE))

MoveDown ==
    MoveTo("MoveDown", move_cursor_down(cursor_index, Len(scored_options), 1, TRUE))

PageUp ==
    MoveTo("PageUp",
           move_cursor_up(cursor_index, Len(scored_options), config.page_size, FALSE))

PageDown ==
    MoveTo("PageDown",
           move_cursor_down(cursor_index, Len(scored_options), config.page_size, FALSE))

MoveToStart ==
    MoveTo("MoveToStart",
           move_cursor_up(cursor_index, Len(scored_options), USIZE_MAX, FALSE))

MoveToEnd ==
    MoveTo("MoveToEnd",
           move_cursor_down(cursor_index, Len(scored_options), USIZE_MAX, FALSE))

\* FilterInput unchecking the options the new Scored Order does not show.
FilterInput_unchecking_hidden ==
    /\ KeyRead
    /\ pc' = "loop"
    /\ Called(<<>>)
    /\ input # <<>>
    /\ \E h \in input_handle(input[1]) :
          /\ input' = <<h.content>>
          /\ last_handle' = input_result_into(h.result)
          /\ IF h.result = "ContentChanged"
             THEN \E run \in ScorerRuns[Len(options)] :
                     LET r == run_scorer(scored_options, cursor_index,
                                         config.reset_cursor, run.order)
                     IN  /\ scored_options' = r.scored_options
                         /\ cursor_index' = r.cursor_index
                         /\ scores' = run.scores
             ELSE /\ scores' = NoScores
                  /\ UNCHANGED <<scored_options, cursor_index>>
    /\ checked' = checked \cap Range(scored_options')
    /\ redraw_cause' = Cause("FilterInput", last_handle')
    /\ UNCHANGED <<kind, args, result, answer, options, config, validator,
                   error, redraw_locals>>

\* handle(FilterInput(input_action))
FilterInput ==
    /\ KeyRead
    /\ pc' = "loop"
    /\ Called(<<>>)
    /\ IF input = <<>>
       THEN /\ last_handle' = "Clean"
            /\ scores' = NoScores
            /\ UNCHANGED <<input, scored_options, cursor_index>>
       ELSE \E h \in input_handle(input[1]) :
            /\ input' = <<h.content>>
            /\ last_handle' = input_result_into(h.result)
            /\ IF h.result = "ContentChanged"
               THEN \E run \in ScorerRuns[Len(options)] :
                       LET r == run_scorer(scored_options, cursor_index,
                                           config.reset_cursor, run.order)
                       IN  /\ scored_options' = r.scored_options
                           /\ cursor_index' = r.cursor_index
                           /\ scores' = run.scores
               ELSE /\ scores' = NoScores
                    /\ UNCHANGED <<scored_options, cursor_index>>
    /\ redraw_cause' = Cause("FilterInput", last_handle')
    /\ UNCHANGED <<kind, args, result, answer, options, checked, config, validator,
                   error, redraw_locals>>

\* MultiSelectPrompt::handle for the three selection actions: the Checked Set
\* becomes new_checked with the action's own result, then
\* clear_input_if_needed(action) runs and its result is merged.
SelectionAction(name, new_checked, own_result) ==
    /\ KeyRead
    /\ kind = "multiselect"
    /\ pc' = "loop"
    /\ Called(<<>>)
    /\ checked' = new_checked
    /\ IF clear_input_if_needed(config.keep_filter, input)
       THEN /\ input' = <<EmptyText>>
            /\ last_handle' = merge("NeedsRedraw", own_result)
            /\ \E run \in ScorerRuns[Len(options)] :
                  LET r == run_scorer(scored_options, cursor_index,
                                      config.reset_cursor, run.order)
                  IN  /\ scored_options' = r.scored_options
                      /\ cursor_index' = r.cursor_index
                      /\ scores' = run.scores
       ELSE /\ last_handle' = merge("Clean", own_result)
            /\ scores' = NoScores
            /\ UNCHANGED <<input, scored_options, cursor_index>>
    /\ redraw_cause' = Cause(name, last_handle')
    /\ UNCHANGED <<kind, args, result, answer, options, config, validator, error,
                   redraw_locals>>

ToggleCurrentOption ==
    SelectionAction("ToggleCurrentOption",
                    toggle_cursor_selection(checked, scored_options, cursor_index),
                    toggle_result(scored_options, cursor_index))

\* SelectAll without the checked.clear() it starts with.
SelectAll_without_clear ==
    SelectionAction("SelectAll", checked \cup select_all(scored_options), "NeedsRedraw")

SelectAll == SelectionAction("SelectAll", select_all(scored_options), "NeedsRedraw")

\* ClearSelections unchecking only what the Scored Order shows.
ClearSelections_visible_only ==
    SelectionAction("ClearSelections", checked \ Range(scored_options), "NeedsRedraw")

ClearSelections == SelectionAction("ClearSelections", {}, "NeedsRedraw")

\* Action::Submit on a SelectPrompt: submit(), then break or NeedsRedraw
SelectSubmit ==
    /\ KeyRead
    /\ kind = "select"
    /\ scores' = NoScores
    /\ Called(<<>>)
    /\ IF has_answer_highlighted(scored_options, cursor_index)
       THEN LET r == select_get_final_answer(options, scored_options, cursor_index)
            IN  /\ options' = r.options
                /\ answer' = r.answer
                /\ pc' = (IF r.panic THEN "done" ELSE "answered")
                /\ result' = (IF r.panic THEN "Panic" ELSE result)
                /\ UNCHANGED last_handle
       ELSE /\ last_handle' = "NeedsRedraw"
            /\ pc' = "loop"
            /\ UNCHANGED <<options, answer, result>>
    /\ redraw_cause' = Cause("Submit", last_handle')
    /\ UNCHANGED <<kind, args, scored_options, cursor_index, checked, input, config,
                   validator, error, redraw_locals>>

\* Action::Submit on a MultiSelectPrompt: submit(), then break or NeedsRedraw
MultiSelectSubmit ==
    /\ KeyRead
    /\ kind = "multiselect"
    /\ scores' = NoScores
    /\ Called(<<>>)
    /\ \E v \in validate_current_answer(validator) :
          CASE v.kind = "Valid" ->
                 LET r == multiselect_get_final_answer(options, checked)
                 IN  /\ options' = r.options
                     /\ answer' = r.answer
                     /\ pc' = (IF r.panic THEN "done" ELSE "answered")
                     /\ result' = (IF r.panic THEN "Panic" ELSE result)
                     /\ UNCHANGED <<error, last_handle>>
                     /\ UNCHANGED <<scored_options, cursor_index, checked, input, config,
                                    validator, redraw_locals>>
            [] v.kind = "Err" ->
                 /\ pc' = "done"
                 /\ result' = "ValidatorError"
                 /\ Dropped
            [] OTHER ->
                 /\ error' = attach_error(error, v.msg)
                 /\ last_handle' = "NeedsRedraw"
                 /\ pc' = "loop"
                 /\ UNCHANGED <<options, answer, result, scored_options, cursor_index,
                                checked, input, config, validator, redraw_locals>>
    /\ redraw_cause' = Cause("Submit", last_handle')
    /\ UNCHANGED <<kind, args>>

\* Action::Cancel: pre_cancel(), then the canceled frame and Err, or NeedsRedraw
Cancel ==
    /\ KeyRead
    /\ scores' = NoScores
    /\ \E pre_cancel_result \in BOOLEAN :
          /\ Called(cancel_calls(pre_cancel_result))
          /\ IF pre_cancel_result
             THEN /\ pc' = "done"
                  /\ result' = "OperationCanceled"
                  /\ Dropped
             ELSE /\ last_handle' = "NeedsRedraw"
                  /\ pc' = "loop"
                  /\ UNCHANGED <<result, answer, options, scored_options, cursor_index,
                              checked, input, config, validator, error, redraw_locals>>
    /\ redraw_cause' = Cause("Cancel", last_handle')
    /\ UNCHANGED <<kind, args>>

\* Action::Interrupt
Interrupt ==
    /\ KeyRead
    /\ scores' = NoScores
    /\ Called(interrupt_calls)
    /\ pc' = "done"
    /\ result' = "OperationInterrupted"
    /\ Dropped
    /\ redraw_cause' = "None"
    /\ UNCHANGED <<kind, args>>

\* The frame with the formatted answer, then Ok(final_answer)
Finish ==
    /\ pc = "answered"
    /\ pc' = "done"
    /\ result' = "Ok"
    /\ Called(finish_calls)
    /\ DropSelf
    /\ UNCHANGED <<kind, args, answer, scores, redraw_cause>>

Next ==
    \/ New
    \/ Setup
    \/ RedrawBegin
    \/ Render
    \/ RedrawCommit
    \/ RedrawAbort
    \/ BackendError
    \/ ReadKey
    \/ KeyIgnored
    \/ MoveUp
    \/ MoveDown
    \/ PageUp
    \/ PageDown
    \/ MoveToStart
    \/ MoveToEnd
    \/ FilterInput
    \/ ToggleCurrentOption
    \/ SelectAll
    \/ ClearSelections
    \/ SelectSubmit
    \/ MultiSelectSubmit
    \/ Cancel
    \/ Interrupt
    \/ Finish

Spec == Init /\ [][Next]_vars

\* The select prompt alone: the steps a SelectPrompt can take.
InitSelect == Init /\ kind = "select"

NextSelect ==
    \/ New
    \/ Setup
    \/ RedrawBegin
    \/ Render
    \/ RedrawCommit
    \/ RedrawAbort
    \/ BackendError
    \/ ReadKey
    \/ KeyIgnored
    \/ MoveUp
    \/ MoveDown
    \/ PageUp
    \/ PageDown
    \/ MoveToStart
    \/ MoveToEnd
    \/ FilterInput
    \/ SelectSubmit
    \/ Cancel
    \/ Interrupt
    \/ Finish

SpecSelect == InitSelect /\ [][NextSelect]_vars

\* The prompts built with the filter input disabled: self.input is None, the
\* scorer is never called and the Scored Order stays the identity.  What the
\* prompt loop, the adaptive redraw, the cursor movements and submit do with
\* the state is decided without the filter text.
InitNoFilter == Init /\ ~args[1].filter_input_enabled

SpecNoFilter == InitNoFilter /\ [][Next]_vars

\* The prompts in which a filter input comes with a configured page size of 1:
\* filter edits and scorer runs read reset_cursor and keep_filter, never the
\* page size, and at page size 1 every frame of a redraw is committed.  The
\* prompts without filter input keep every page size.
InitFilter == Init /\ (args[1].filter_input_enabled => args[1].page_size = 1)

SpecFilter == InitFilter /\ [][Next]_vars

\* The prompts built without validator, with reset_cursor and keep_filter off:
\* a filter input, if enabled, goes with every configured page size.  The page
\* size is read by PageUp, PageDown and the adaptive redraw, none of which
\* reads the three fields.
InitPaged ==
    Init /\ ~args[1].validator /\ ~args[1].reset_cursor /\ ~args[1].keep_filter

SpecPaged == InitPaged /\ [][Next]_vars

\* The adaptive redraw reads page_size and the heights only: its termination is
\* settled on the prompts built without filter input.
InitLive == InitNoFilter

\* redraw_with_adaptive_page_size blocks on nothing: once entered, each of its
\* steps is taken unless a backend call fails first.
SpecLive ==
    /\ InitLive
    /\ [][Next]_vars
    /\ WF_vars(Render)
    /\ WF_vars(RedrawCommit)
    /\ WF_vars(RedrawAbort)

\* ===================================================================== claims
\* A prompt object exists (new returned Ok) and prompt() has not returned.
PromptExists == pc \in {"setup", "loop", "key", "redraw", "measured", "answered"}

\* C1: in every reachable state of either prompt the cursor is below
\* len(Scored Order) when the Scored Order is non-empty, and 0 when it is empty.
C1_CursorInBounds ==
    (PromptExists /\ pc # "answered") =>
        /\ scored_options # <<>> => cursor_index < Len(scored_options)
        /\ scored_options = <<>> => cursor_index = 0

\* C2: constructing either prompt with a starting cursor >= n over n options
\* fails with InvalidConfiguration and produces no prompt object.
C2_StartingCursorRejected ==
    [][(pc = "new" /\ args[1].starting_cursor >= Len(args[1].options))
         => (pc' = "failed" /\ result' = "InvalidConfiguration")]_vars

\* C3: given a configured page size >= 1, the runtime page size is >= 1 in
\* every reachable state, whatever the adaptive redraw shrinks it to.
C3_PageSizeAtLeastOne == PromptExists => config.page_size >= 1

\* The order C4 names for scorer results sc: the surviving indices by descending
\* score, equal scores by ascending canonical index.
CanonicalOrder(sc) ==
    LET S == Survivors(sc)
        k == Cardinality(S)
    IN  CHOOSE s \in [1..k -> S] :
            \A a, b \in 1..k : a < b =>
                \/ sc[s[a] + 1][1] > sc[s[b] + 1][1]
                \/ (sc[s[a] + 1][1] = sc[s[b] + 1][1] /\ s[a] < s[b])

\* C4: after every scorer run with filtering enabled the Scored Order is the
\* scored indices by descending score, equal scores in ascending index order.
C4_ScoredOrderCanonical ==
    (PromptExists /\ scores # NoScores) => scored_options = CanonicalOrder(scores)

\* C5: with a Scored Order of length L >= 1, PageUp, PageDown, MoveToStart and
\* MoveToEnd leave the cursor inside [0, L-1] without wrapping: Home lands on 0,
\* End on L-1, PageUp clamps at 0 and PageDown clamps at L-1.
C5_PagingStaysInBounds ==
    [][Len(scored_options) >= 1 =>
         LET L == Len(scored_options)
             p == config.page_size
         IN  /\ MoveToStart => cursor_index' = 0
             /\ MoveToEnd => cursor_index' = L - 1
             /\ PageUp => /\ cursor_index' \in 0..(L - 1)
                          /\ cursor_index' = Max(cursor_index - p, 0)
             /\ PageDown => /\ cursor_index' \in 0..(L - 1)
                            /\ cursor_index' = Min(cursor_index + p, L - 1)]_vars

\* C6: single-select Submit ends the prompt with an answer iff the Scored Order
\* is non-empty; the answer is (i, v), i = ScoredOrder[cursor] and v the value at
\* canonical index i of the original Option Set; with nothing highlighted there
\* is no answer, a redraw is requested and the loop continues.
C6_SelectSubmit ==
    [][/\ SelectSubmit =>
            IF scored_options # <<>>
            THEN LET i == scored_options[cursor_index + 1]
                 IN  /\ pc' = "answered"
                     /\ answer' = <<ListOption(i, OptionValue(i))>>
            ELSE /\ pc' = "loop"
                 /\ answer' = <<>>
                 /\ result' = "None"
                 /\ last_handle' = "NeedsRedraw"
       /\ (pc = "answered" /\ Finish) => (result' = "Ok" /\ answer' = answer)]_vars

\* Scenario A's answer: (1, second option) out of two options.
C6_Witness ==
    /\ kind = "select"
    /\ pc = "answered"
    /\ Len(options) = 1
    /\ answer = <<ListOption(1, OptionValue(1))>>

\* A selection of nothing was submitted: the loop goes on with a redraw.
C6_WitnessNothingHighlighted ==
    /\ kind = "select"
    /\ pc = "loop"
    /\ redraw_cause = "Submit"
    /\ scored_options = <<>>

\* The set S as a sequence in ascending order.
RECURSIVE Ascending(_)
Ascending(S) ==
    IF S = {} THEN <<>>
    ELSE LET m == SetMax(S) IN Append(Ascending(S \ {m}), m)

\* C7: an accepted multi-select Submit returns exactly one pair (i, original
\* value at i) per i in the Checked Set, in strictly ascending order of i, also
\* for checked indices that are filtered out of the Scored Order.
C7_MultiSelectSubmit ==
    [][MultiSelectSubmit =>
         /\ pc' \in {"answered", "loop", "done"}
         /\ ~validator => pc' = "answered"
         /\ pc' = "done" => result' = "ValidatorError"
         /\ pc' = "answered" =>
               LET idx == Ascending(checked)
               IN  answer' = [k \in 1..Len(idx) |-> ListOption(idx[k], OptionValue(idx[k]))]]_vars

\* Scenario B's answer, with index 2 checked while filtered out.
C7_Witness ==
    /\ kind = "multiselect"
    /\ pc = "answered"
    /\ answer = <<ListOption(0, OptionValue(0)), ListOption(2, OptionValue(2))>>
    /\ 2 \notin Range(scored_options)

\* C8: when the validator rejects the checked options on Submit, nothing is
\* returned and the loop keeps running: the message is attached, a redraw is
\* requested before the next key read, and Option Set, Checked Set, Scored Order
\* and cursor are unchanged.
C8_RejectedSubmit ==
    [][/\ (MultiSelectSubmit /\ pc' = "loop") =>
            /\ validator
            /\ error' # <<>>
            /\ error'[1] \in Messages
            /\ last_handle' = "NeedsRedraw"
            /\ result' = "None"
            /\ answer' = <<>>
            /\ UNCHANGED <<options, checked, scored_options, cursor_index>>
       /\ (pc = "loop" /\ last_handle = "NeedsRedraw") => (RedrawBegin \/ BackendError)]_vars

\* Scenario D: Submit with nothing checked was rejected.
C8_Witness ==
    /\ kind = "multiselect"
    /\ pc = "loop"
    /\ redraw_cause = "Submit"
    /\ error # <<>>
    /\ checked = {}

\* C9: construction fails with InvalidConfiguration, before any rendering or key
\* read and without a prompt object, when the Option Set is empty (both
\* prompts) or a default-checked index is >= n (multi-select).
C9_InvalidConfiguration ==
    [][/\ (/\ pc = "new"
           /\ \/ Len(args[1].options) = 0
              \/ /\ kind = "multiselect"
                 /\ args[1].default # <<>>
                 /\ \E i \in args[1].default[1] : i >= Len(args[1].options))
          => /\ pc' = "failed"
             /\ result' = "InvalidConfiguration"
             /\ UNCHANGED <<options, scored_options, cursor_index, checked, input,
                            config, last_handle>>
       /\ pc # "failed"]_vars

\* A default-checked index equal to n over n >= 1 options was refused.
C9_Witness ==
    /\ kind = "multiselect"
    /\ pc = "failed"
    /\ result = "InvalidConfiguration"
    /\ Len(args[1].options) >= 1
    /\ args[1].default = <<{Len(args[1].options)}>>

\* C10: every iteration of the adaptive redraw that aborts its frame leaves the
\* working page size strictly smaller than it found it.
C10_AbortShrinks == [][RedrawAbort => page_size' < page_size]_vars

\* A redraw that has aborted two frames.
C10_Witness == pc = "redraw" /\ aborts >= 2

\* C11: every invocation of the adaptive redraw commits a frame after at most
\* entry_page_size render iterations (the page size at entry, at least 1),
\* whatever heights the backend reports, unless a backend call fails.
C11_RedrawCommits ==
    /\ [](pc \in {"redraw", "measured"} => aborts + 1 <= entry_page_size)
    /\ (pc = "redraw" ~> (AtReadKey \/ failed # <<>>))

\* The last permitted iteration, at page size 1, of a redraw entered with the
\* largest page size: its frame is still taller than the terminal.
C11_Witness ==
    /\ pc = "measured"
    /\ entry_page_size = MaxPageSize
    /\ aborts + 1 = entry_page_size
    /\ page_size = 1
    /\ frame_h > term_h

\* C12: the adaptive redraw commits a frame only if its flush height is at most
\* the terminal height or the working page size is at most 1; a frame rendered
\* at a page size above 1 that is taller than the terminal is aborted, never
\* flushed; a frame rendered at page size 1 is always committed.
C12_CommitOnlyIfFits ==
    [][/\ RedrawCommit => (frame_h <= term_h \/ page_size <= 1)
       /\ (pc = "measured" /\ page_size > 1 /\ frame_h > term_h)
             => (RedrawAbort \/ BackendError)
       /\ RedrawAbort => (pc' = "redraw" /\ last_handle' = "NeedsRedraw")
       /\ (pc = "measured" /\ page_size = 1) => (RedrawCommit \/ BackendError)]_vars

\* After one discarded frame, the frame rendered at page size 2 is again taller
\* than the terminal.
C12_Witness ==
    /\ pc = "measured"
    /\ aborts = 1
    /\ page_size = 2
    /\ frame_h > term_h

C14_PageSizeNeverGrows ==
    [][(PromptExists /\ PromptExists') =>
         /\ config'.page_size <= config.page_size
         /\ PageUp => cursor_index' = Max(cursor_index - config.page_size, 0)
         /\ PageDown =>
               cursor_index' = (IF scored_options = <<>> THEN 0
                                ELSE Min(cursor_index + config.page_size,
                                         Len(scored_options) - 1))]_vars

\* The page size was shrunk by this redraw although the filtered list is
\* shorter than even the shrunk page.
C14_Witness ==
    /\ pc = "redraw"
    /\ config.page_size < entry_page_size
    /\ input # <<>>
    /\ Len(scored_options) < config.page_size

\* C15: with filtering disabled the Scored Order of a prompt over n options is
\* [0, 1, ..., n-1] in every reachable state.
C15_IdentityWithoutFilter ==
    (PromptExists /\ input = <<>>) =>
        /\ Len(scored_options) = Len(options) + Len(answer)
        /\ Len(scored_options) >= 1
        /\ \A k \in 1..Len(scored_options) : scored_options[k] = k - 1

\* A multi-select prompt without filter, with options checked, in a redraw that
\* already aborted a frame.
C15_Witness ==
    /\ kind = "multiselect"
    /\ input = <<>>
    /\ pc = "measured"
    /\ aborts >= 1
    /\ checked # {}
    /\ Len(scored_options) = MaxOptions

\* C16: over a Scored Order of length L >= 1 and from an in-bounds cursor,
\* MoveUp goes from 0 to L-1 and otherwise one position up, MoveDown goes from
\* L-1 to 0 and otherwise one position down, and each asks for a redraw if and
\* only if the cursor changed.
C16_WrappingMoves ==
    [][cursor_index < Len(scored_options) =>
         LET L == Len(scored_options)
         IN  /\ MoveUp =>
                   cursor_index' = (IF cursor_index = 0 THEN L - 1 ELSE cursor_index - 1)
             /\ MoveDown =>
                   cursor_index' = (IF cursor_index = L - 1 THEN 0 ELSE cursor_index + 1)
             /\ (MoveUp \/ MoveDown) =>
                   /\ last_handle' \in {"Clean", "NeedsRedraw"}
                   /\ (last_handle' = "NeedsRedraw") <=> (cursor_index' # cursor_index)]_vars

\* MoveUp wrapped from the first of three options to the last.
C16_Witness ==
    /\ kind = "select"
    /\ pc = "loop"
    /\ redraw_cause = "MoveUp"
    /\ Len(scored_options) = 3
    /\ cursor_index = 2

\* C17: a ToggleCurrentOption acting on canonical index idx, followed by a
\* toggle acting on idx again, leaves the Checked Set as it was before the
\* first; a toggle with the cursor on no option leaves the Checked Set alone.
\* The second toggle is taken at every position of the Scored Order the first
\* one leaves that holds idx.
C17_ToggleInvolution ==
    [][ToggleCurrentOption =>
         IF cursor_index < Len(scored_options)
         THEN LET idx == scored_options[cursor_index + 1]
              IN  /\ (idx \in checked') # (idx \in checked)
                  /\ \A c2 \in 0..(Len(scored_options') - 1) :
                        scored_options'[c2 + 1] = idx =>
                          toggle_cursor_selection(checked', scored_options', c2) = checked
         ELSE checked' = checked]_vars

\* A toggle just unchecked the option under the cursor, with the filter text
\* kept, so that the cursor is still on the option it acted on.
C17_Witness ==
    /\ pc = "loop"
    /\ redraw_cause = "ToggleCurrentOption"
    /\ scores = NoScores
    /\ input # <<>>
    /\ cursor_index < Len(scored_options)
    /\ scored_options[cursor_index + 1] \notin checked
    /\ checked # {}

\* C18: SelectAll makes the Checked Set exactly the canonical indices of the
\* Scored Order found when the action is handled, before the filter is cleared:
\* checked options that are filtered out become unchecked, and no option outside
\* the Scored Order is added.
C18_SelectAllVisible ==
    [][SelectAll =>
         checked' = {scored_options[k] : k \in 1..Len(scored_options)}]_vars

\* SelectAll checked the one option the filter showed, then cleared the filter:
\* the Scored Order it leaves has all three options.
C18_Witness ==
    /\ pc = "loop"
    /\ redraw_cause = "SelectAll"
    /\ Cardinality(checked) = 1
    /\ Len(scored_options) = 3
    /\ input = <<EmptyText>>

\* C19: SelectAll leaves the prompt running with a redraw requested, and the
\* ClearSelections that follows empties the Checked Set, as it does from every
\* state whatever the Checked Set, the filter text and keep_filter.
C19_SelectAllThenClear ==
    [][/\ SelectAll => (pc' = "loop" /\ last_handle' = "NeedsRedraw")
       /\ ClearSelections => (checked' = {} /\ pc' = "loop")]_vars

\* ClearSelections handled with a filter text that is kept and hides options.
C19_Witness ==
    /\ pc = "loop"
    /\ redraw_cause = "ClearSelections"
    /\ checked = {}
    /\ config.keep_filter
    /\ input # <<>>
    /\ input[1] # EmptyText
    /\ Len(scored_options) < Len(options)

\* A step handling one of the three selection actions.  The first two conjuncts
\* follow from the third; they are there to be evaluated first.
SelectionStep ==
    /\ KeyRead
    /\ redraw_cause' \in {"ToggleCurrentOption", "SelectAll", "ClearSelections", "None"}
    /\ (ToggleCurrentOption \/ SelectAll \/ ClearSelections)

\* C20: with keep_filter off and a non-empty filter text, ToggleCurrentOption,
\* SelectAll and ClearSelections apply their change to the Checked Set against
\* the filtered Scored Order, then leave the filter text empty, the Scored Order
\* recomputed by a scorer run, and a redraw requested; with keep_filter on, with
\* an empty text or without a filter input they leave the text alone, and so
\* does every step that is not one of the three and not a filter edit.
C20_FilterClearedAfterSelection ==
    [][/\ SelectionStep =>
            IF ~config.keep_filter /\ input # <<>> /\ input[1] # EmptyText
            THEN /\ input' = <<EmptyText>>
                 /\ last_handle' = "NeedsRedraw"
                 /\ scores' # NoScores
                 /\ scored_options' \in sort_unstable_by_key(scores')
                 /\ redraw_cause' = "ToggleCurrentOption" =>
                       checked' = toggle_cursor_selection(checked, scored_options,
                                                          cursor_index)
                 /\ redraw_cause' = "SelectAll" => checked' = Range(scored_options)
                 /\ redraw_cause' = "ClearSelections" => checked' = {}
            ELSE /\ input' = input
                 /\ scored_options' = scored_options
                 /\ scores' = NoScores
       /\ \/ input' = input
          \/ ~PromptExists'
          \/ New
          \/ redraw_cause' = "FilterInput"
          \/ SelectionStep]_vars

\* A toggle checked an option of the filtered list and the filter was cleared
\* and rescored.
C20_Witness ==
    /\ pc = "loop"
    /\ redraw_cause = "ToggleCurrentOption"
    /\ ~config.keep_filter
    /\ input = <<EmptyText>>
    /\ scores # NoScores
    /\ checked # {}

\* The prompt exists and its answer has not been extracted.
BeforeExtraction == pc \in {"setup", "loop", "key", "redraw", "measured"}

\* C21: in every reachable state of the multi-select prompt before extraction,
\* every member of the Checked Set is a canonical index of the Option Set.
C21_CheckedValid ==
    (kind = "multiselect" /\ BeforeExtraction) =>
        \A i \in checked : 0 <= i /\ i < Len(options)

\* Two options are checked and one of them is filtered out of the Scored Order.
C21_Witness ==
    /\ kind = "multiselect"
    /\ pc = "key"
    /\ Cardinality(checked) = 2
    /\ \E i \in checked : \A k \in 1..Len(scored_options) : scored_options[k] # i

\* C22: while the prompt runs, the Checked Set changes only in a step that
\* handles ToggleCurrentOption, SelectAll or ClearSelections: filter edits,
\* scorer runs, cursor movements and redraws leave it as it is.
C22_CheckedIndependentOfFilter ==
    [][(PromptExists /\ PromptExists' /\ checked' # checked) =>
         /\ kind = "multiselect"
         /\ redraw_cause' \in {"ToggleCurrentOption", "SelectAll", "ClearSelections"}
         /\ (ToggleCurrentOption \/ SelectAll \/ ClearSelections)]_vars

\* A filter edit has just rescored the options and left one that is checked out
\* of the Scored Order.
C22_Witness ==
    /\ pc = "loop"
    /\ redraw_cause = "FilterInput"
    /\ scores # NoScores
    /\ \E i \in checked : i \notin Range(scored_options)

\* C23: Interrupt ends the prompt at once with OperationInterrupted: after the
\* key was read the hook is not called, no frame is set up, rendered or
\* finished, and no step follows, so no key is read.
C23_InterruptImmediate ==
    [][/\ Interrupt =>
            /\ calls' = <<>>
            /\ failed' = <<>>
            /\ pc' = "done"
            /\ result' = "OperationInterrupted"
            /\ answer' = <<>>
       /\ result # "OperationInterrupted"]_vars

\* The prompt has returned OperationInterrupted.
C23_Witness ==
    /\ pc = "done"
    /\ result = "OperationInterrupted"
    /\ calls = <<>>

\* C24: Cancel calls the pre-cancel hook once; if it approves, one canceled
\* frame is set up, rendered and finished and the prompt returns
\* OperationCanceled, reading no other key; if it declines, the prompt goes on
\* with a redraw requested and cursor, Checked Set, Scored Order and Option Set
\* unchanged.
C24_CancelAsksHookOnce ==
    [][/\ Cancel =>
            \/ /\ calls' = <<"pre_cancel", "frame_setup", "render_canceled_prompt",
                              "frame_finish">>
               /\ pc' = "done"
               /\ result' = "OperationCanceled"
               /\ answer' = <<>>
            \/ /\ calls' = <<"pre_cancel">>
               /\ pc' = "loop"
               /\ last_handle' = "NeedsRedraw"
               /\ result' = "None"
               /\ UNCHANGED <<cursor_index, checked, scored_options, options>>
       /\ result # "OperationCanceled"]_vars

\* The hook declined a Cancel received while options were checked.
C24_Witness ==
    /\ pc = "loop"
    /\ redraw_cause = "Cancel"
    /\ calls = <<"pre_cancel">>
    /\ checked # {}

\* C25: a key is read only when the last handled action asked for no redraw,
\* and it is handled before anything else happens; a requested redraw (the
\* initial one included) is the only thing that can follow the request, and it
\* ends with a committed frame that withdraws the request; without a request no
\* frame is set up before the key read.
C25_RedrawBeforeKeyRead ==
    [][/\ Setup => (pc' = "loop" /\ last_handle' = "NeedsRedraw")
       /\ (pc = "loop" /\ last_handle = "NeedsRedraw") => RedrawBegin
       /\ RedrawCommit => (pc' = "loop" /\ last_handle' = "Clean")
       /\ (pc = "loop" /\ last_handle = "Clean") =>
             /\ calls'[1] = "read_key"
             /\ Len(calls') = 1
             /\ (ReadKey \/ BackendError)
       /\ (\E k \in 1..Len(calls') : calls'[k] = "read_key") =>
             (pc = "loop" /\ last_handle = "Clean")
       /\ pc = "key" => pc' \in {"loop", "answered", "done"}]_vars

\* A toggle was handled, its redraw committed a frame, and the next key is
\* about to be read.
C25_Witness ==
    /\ pc = "loop"
    /\ last_handle = "Clean"
    /\ calls = <<"frame_finish">>
    /\ checked # {}

\* C26: a backend call that returns an error ends the prompt with that error:
\* the failed call is the last call made, the prompt returns no answer, and no
\* step follows.
C26_BackendErrorPropagates ==
    [][/\ failed' # <<>> =>
            /\ BackendError
            /\ pc' = "done"
            /\ result' = failed'[2]
            /\ result' \in BackendErrors
            /\ answer' = <<>>
            /\ calls'[Len(calls')] = failed'[1]
            /\ \A k \in 1..(Len(calls') - 1) : calls'[k] # failed'[1]
       /\ failed = <<>>]_vars

\* frame_abort failed after a frame had already been aborted.
C26_Witness ==
    /\ pc = "done"
    /\ failed = <<"frame_abort", "IO">>
    /\ result = "IO"

\* C27: when a filter edit changes the text and the recomputed Scored Order
\* equals the previous one, the cursor stays, also with reset_cursor on; when
\* the order changes, the cursor becomes 0 with reset_cursor on, and otherwise
\* stays if still in bounds or becomes the last valid index (0 if none).
C27_CursorReconciled ==
    [][(pc = "key" /\ redraw_cause' = "FilterInput" /\ input' # input) =>
         /\ scores' # NoScores
         /\ IF scored_options' = scored_options
            THEN cursor_index' = cursor_index
            ELSE IF config.reset_cursor
            THEN cursor_index' = 0
            ELSE IF cursor_index < Len(scored_options')
            THEN cursor_index' = cursor_index
            ELSE cursor_index' = Max(Len(scored_options') - 1, 0)]_vars

\* With reset_cursor on, a filter edit rescored the options into the same order
\* and the cursor is still off the first position.
C27_Witness ==
    /\ pc = "loop"
    /\ redraw_cause = "FilterInput"
    /\ scores # NoScores
    /\ config.reset_cursor
    /\ cursor_index > 0
    /\ cursor_index < Len(scored_options)

\* C28: before extraction every element of the Scored Order is a canonical
\* index of the Option Set and none occurs twice, so that the order is no longer
\* than the Option Set; and only a successful Submit changes the Option Set.
C28_ScoredOrderValid ==
    /\ [](BeforeExtraction =>
            /\ \A k \in 1..Len(scored_options) :
                  0 <= scored_options[k] /\ scored_options[k] < Len(options)
            /\ \A a, b \in 1..Len(scored_options) :
                  a # b => scored_options[a] # scored_options[b]
            /\ Len(scored_options) <= Len(options)
            /\ options = [k \in 1..Len(options) |-> OptionValue(k - 1)])
    /\ [][(PromptExists /\ PromptExists' /\ options' # options) =>
            /\ pc = "key"
            /\ pc' = "answered"
            /\ (SelectSubmit \/ MultiSelectSubmit)]_vars

\* A filter left two of three options, the higher index first.
C28_Witness ==
    /\ pc = "loop"
    /\ Len(options) = 3
    /\ Len(scored_options) = 2
    /\ scored_options[1] > scored_options[2]

\* C29: once attached, a validation error message stays attached as long as the
\* prompt runs; it changes only in a rejected Submit, which overwrites it; and
\* every render of the multi-select prompt draws it.
C29_ErrorPersists ==
    [][(PromptExists /\ PromptExists') =>
         /\ error # <<>> => error' # <<>>
         /\ error' # error =>
               /\ kind = "multiselect"
               /\ pc = "key"
               /\ pc' = "loop"
               /\ redraw_cause' = "Submit"
               /\ MultiSelectSubmit
         /\ (Render /\ kind = "multiselect") =>
               ((error # <<>>) <=> (\E k \in 1..Len(calls') :
                                       calls'[k] = "render_error_message"))]_vars

\* The message is drawn by a redraw that follows a toggle, not the rejected
\* Submit.
C29_Witness ==
    /\ pc = "measured"
    /\ error = <<<<"msg", 2>>>>
    /\ calls[2] = "render_error_message"
    /\ checked # {}
    /\ input # <<>>

\* What the calls cs do to a frame that is open or not: whether each call finds
\* the frame as it needs it, and whether a frame is open after them.
RECURSIVE FrameAfter(_, _)
FrameAfter(open, cs) ==
    IF cs = <<>> THEN [ok |-> TRUE, open |-> open]
    ELSE LET c == Head(cs)
         IN  CASE c = "frame_setup" ->
                    IF open THEN [ok |-> FALSE, open |-> open]
                    ELSE FrameAfter(TRUE, Tail(cs))
               [] c \in {"frame_finish", "frame_abort"} ->
                    IF open THEN FrameAfter(FALSE, Tail(cs))
                    ELSE [ok |-> FALSE, open |-> open]
               [] c \in {"render", "render_error_message", "render_canceled_prompt",
                         "render_prompt_with_answer", "current_flush_height",
                         "current_terminal_height"} ->
                    IF open THEN FrameAfter(open, Tail(cs))
                    ELSE [ok |-> FALSE, open |-> open]
               [] c = "read_key" ->
                    IF open THEN [ok |-> FALSE, open |-> open]
                    ELSE FrameAfter(open, Tail(cs))
               [] OTHER -> FrameAfter(open, Tail(cs))

\* C30: in a session without backend error, frame_setup and the frame-closing
\* calls alternate, starting with frame_setup; every render call is made in an
\* open frame; no frame is open when read_key is called or when the prompt
\* returns.  A frame is open exactly between a Render step and the commit or
\* abort that follows it.
C30_FramesAlternate ==
    [][(failed = <<>> /\ failed' = <<>>) =>
         LET r == FrameAfter(pc = "measured", calls')
         IN  /\ r.ok
             /\ r.open <=> (pc' = "measured")
             /\ pc' = "done" => ~r.open]_vars

\* A redraw has aborted its second frame: two frames were set up and closed in
\* turn, and none is open.
C30_Witness ==
    /\ pc = "redraw"
    /\ aborts = 2
    /\ calls = <<"frame_abort">>
    /\ failed = <<>>

====
